---- MODULE Spec2Model ----
(***************************************************************************)
(* Model of src/career_path_advisor.py: main() constructing one            *)
(* CareerPathAdvisor and running run_interactive_session() on it.          *)
(*                                                                         *)
(* One thread of control.  The state is the advisor's fields, the locals   *)
(* of run_interactive_session, the position of control (pc) at each        *)
(* suspension point (input(), an awaited agent run, the awaited sleep and  *)
(* close of the cleanup), and what main() printed.  History variables      *)
(* (calls, writes, prompts, sent, request, research_arg, roadmap_arg,      *)
(* raised, exchanges, research_out, released) record what was invoked,     *)
(* with which arguments and with which outcome; the program's actions      *)
(* never read them.                                                        *)
(*                                                                         *)
(* A Python str is a finite sequence: a line typed by the human is a       *)
(* sequence of characters, a model reply is a sequence of words.           *)
(***************************************************************************)
EXTENDS Integers, Sequences, FiniteSets, TLC

VARIABLES
    pc,                 \* position of control
    user_input,         \* local of run_interactive_session
    i,                  \* loop variable of "for i in range(5)"
    profile_response,   \* local
    profile_text,       \* local
    learning_resources, \* local
    career_roadmap,     \* local
    profile_context,    \* self._profile_context, the Transcript
    context,            \* self.context, the Session Result
    mslearn_mcp,        \* self.mslearn_mcp: which methods the tool object has
    exc,                \* exception propagating to / handled by main
    printed,            \* what main's handlers printed
    result,             \* value run_interactive_session returned to main
    calls,              \* history: number of invocations of each method
    writes,             \* history: context keys assigned, in order
    prompts,            \* history: number of lines read by input()
    sent,               \* history: the user_input of every gather_profile call
    request,            \* history: last full_context sent to profile_agent
    research_arg,       \* history: argument of research_learning_path
    roadmap_arg,        \* history: arguments of create_roadmap
    raised,             \* history: the exception as it was first raised
    exchanges,          \* history: number of gather_profile calls that returned
    research_out,       \* history: what research_learning_path returned
    released,           \* history: outcome of the tool's release, once tried
    env,                \* the process environment after load_dotenv()
    config,             \* AZURE_ENDPOINT, AZURE_API_KEY, DEPLOYMENT_NAME,
                        \* API_VERSION
    built               \* the objects __init__ has constructed, in order

vars == <<pc, user_input, i, profile_response, profile_text,
          learning_resources, career_roadmap, profile_context, context,
          mslearn_mcp, exc, printed, result, calls, writes, prompts, sent,
          request, research_arg, roadmap_arg, raised, exchanges,
          research_out, released, env, config, built>>

locals == <<user_input, i, profile_response, profile_text,
            learning_resources, career_roadmap>>

\* what the module's top level and __init__ set up before the session
startup == <<env, config, built>>

\* what main holds: the exception in flight, its output, the session's value
mainvars == <<exc, printed, result, raised>>

(***************************************************************************)
(* Bounds and input domains                                                *)
(***************************************************************************)
\* longest whitespace-only line the human types
MaxBlankLen == 1

\* the empty line and the whitespace-only lines
BlankLines == UNION {[1..n -> {" "}] : n \in 0..MaxBlankLen}

\* lines with something in them, with and without surrounding whitespace
NonBlankLines == {<<"x">>, <<" ", "x">>}

\* the lines input() can return
InputLines == BlankLines \cup NonBlankLines

\* the completion marker looked for in the Profile Agent's reply
PROFILE_COMPLETE == "PROFILE_COMPLETE"

\* texts an agent run can return (response.text), as sequences of words
ReplyTexts == {<<>>, <<"q">>, <<PROFILE_COMPLETE>>, <<"q", PROFILE_COMPLETE>>}

\* texts of the Research and Advisor agents
StageTexts == {<<>>, <<"r">>}

(***************************************************************************)
(* Python values                                                           *)
(***************************************************************************)
Str(s) == [type |-> "str", val |-> s]

EmptyDict == [type |-> "dict", val |-> <<>>]

EmptyList == [type |-> "list", val |-> <<>>]

\* a local name not yet bound
Unbound == [type |-> "unbound", val |-> <<>>]

\* a function that ends without a return statement returns None
None == [type |-> "NoneType", val |-> <<>>]

\* str.strip(): drop leading and trailing whitespace
RECURSIVE LStrip(_)
LStrip(s) == IF s # <<>> /\ Head(s) = " " THEN LStrip(Tail(s)) ELSE s

RECURSIVE RStrip(_)
RStrip(s) ==
    IF s # <<>> /\ s[Len(s)] = " " THEN RStrip(SubSeq(s, 1, Len(s) - 1)) ELSE s

Strip(s) == RStrip(LStrip(s))

\* truth value of a str: non-empty
Truthy(s) == s # <<>>

\* "marker in text"
Contains(marker, text) == \E k \in 1..Len(text) : text[k] = marker

\* f"User: {user_input}" and f"Agent: {response.text}"
Entry(speaker, text) == <<speaker>> \o text

\* sep.join(items)
RECURSIVE Join(_, _)
Join(sep, items) ==
    IF items = <<>> THEN <<>>
    ELSE IF Len(items) = 1 THEN items[1]
    ELSE items[1] \o <<sep>> \o Join(sep, Tail(items))

(***************************************************************************)
(* Exceptions                                                              *)
(***************************************************************************)
\* what an awaited agent run can raise (transport / model errors)
StageErrors == {"TimeoutError", "AuthenticationError"}

\* what the tool's close() or __aexit__() can raise:
\* already closed, network down
ReleaseErrors == {"RuntimeError", "ConnectionError"}

\* subclasses of Exception; KeyboardInterrupt derives from BaseException only
IsException(e) ==
    e \in StageErrors \cup ReleaseErrors \cup {"EOFError", "ValueError"}

\* which of close / __aexit__ the tool object has
ToolShapes == [close : BOOLEAN, aexit : BOOLEAN]

(***************************************************************************)
(* CareerPathAdvisor.__init__ and the entry into run_interactive_session   *)
(***************************************************************************)
\* the settings read by os.getenv at import time
RequiredSettings ==
    <<"AZURE_OPENAI_ENDPOINT", "AZURE_OPENAI_API_KEY",
      "AZURE_OPENAI_DEPLOYMENT_NAME">>

EnvNames ==
    {RequiredSettings[k] : k \in 1..Len(RequiredSettings)}
        \cup {"AZURE_OPENAI_API_VERSION"}

\* a variable is absent (os.getenv gives None), empty, or set
EnvValues == {None, Str(<<>>), Str(<<"v">>)}

\* the second argument of os.getenv("AZURE_OPENAI_API_VERSION", ...)
DefaultApiVersion == Str(<<"2025-01-01-preview">>)

\* os.getenv(name) and os.getenv(name, default)
GetEnv(e, name, default) == IF e[name] = None THEN default ELSE e[name]

\* variant: only an absent setting counts as missing ("is None")
FalsyNoneOnly(v) == v = None

\* "not v" for a value that is None or a str
Falsy(v) == v = None \/ v.val = <<>>

\* the module-level assignments of lines 40-43
ReadConfig(e) ==
    [n \in EnvNames |->
        GetEnv(e, n, IF n = "AZURE_OPENAI_API_VERSION" THEN DefaultApiVersion
                     ELSE None)]

\* the required settings the checks of lines 47-52 reject, in their order
MissingSettings(c) ==
    SelectSeq(RequiredSettings, LAMBDA n : Falsy(c[n]))

\* a complete environment, with the API version left to its default
FullEnv ==
    [n \in EnvNames |->
        IF n = "AZURE_OPENAI_API_VERSION" THEN None ELSE Str(<<"v">>)]

\* what __init__ constructs, in order (lines 77-97)
BuiltByInit ==
    <<"chat_client", "mslearn_mcp", "profile_agent", "research_agent",
      "advisor_agent">>

\* variant: the loop allows one exchange more
MaxExchangesOneMore == 5 + 1

\* range(5)
MaxExchanges == 5

Init ==
    /\ pc = "input_career"
    /\ user_input = Unbound
    /\ i = 0
    /\ profile_response = Unbound
    /\ profile_text = Unbound
    /\ learning_resources = Unbound
    /\ career_roadmap = Unbound
    /\ profile_context = <<>>
    /\ context = [user_profile |-> EmptyDict,
                  learning_resources |-> EmptyList,
                  career_roadmap |-> Str(<<>>)]
    /\ mslearn_mcp \in ToolShapes
    /\ exc = "none"
    /\ printed = <<>>
    /\ result = Unbound
    /\ calls = [gather_profile |-> 0, research_learning_path |-> 0,
                create_roadmap |-> 0, cleanup_mcp |-> 0, close |-> 0,
                aexit |-> 0]
    /\ writes = <<>>
    /\ prompts = 0
    /\ sent = <<>>
    /\ request = <<>>
    /\ research_arg = Unbound
    /\ roadmap_arg = <<Unbound, Unbound>>
    /\ raised = "none"
    /\ exchanges = 0
    /\ research_out = Unbound
    /\ released = "untried"
    /\ env = FullEnv
    /\ config = ReadConfig(FullEnv)
    /\ built = BuiltByInit

\* the state before the module's top-level code has run
InitStartup ==
    /\ pc = "import"
    /\ env \in [EnvNames -> EnvValues]
    /\ config = [n \in EnvNames |-> Unbound]
    /\ built = <<>>
    /\ mslearn_mcp = Unbound
    /\ context = Unbound
    /\ profile_context = <<>>
    /\ user_input = Unbound
    /\ i = 0
    /\ profile_response = Unbound
    /\ profile_text = Unbound
    /\ learning_resources = Unbound
    /\ career_roadmap = Unbound
    /\ exc = "none"
    /\ printed = <<>>
    /\ result = Unbound
    /\ calls = [gather_profile |-> 0, research_learning_path |-> 0,
                create_roadmap |-> 0, cleanup_mcp |-> 0, close |-> 0,
                aexit |-> 0]
    /\ writes = <<>>
    /\ prompts = 0
    /\ sent = <<>>
    /\ request = <<>>
    /\ research_arg = Unbound
    /\ roadmap_arg = <<Unbound, Unbound>>
    /\ raised = "none"
    /\ exchanges = 0
    /\ research_out = Unbound
    /\ released = "untried"

\* the module's top level: read the four settings, then raise ValueError for
\* the first required one that is missing; nothing catches it, so the
\* interpreter prints the traceback with its message and exits
LoadConfig ==
    /\ pc = "import"
    /\ config' = ReadConfig(env)
    /\ IF MissingSettings(config') # <<>>
       THEN /\ exc' = "ValueError"
            /\ raised' = "ValueError"
            /\ printed' =
                  <<"traceback", "ValueError", Head(MissingSettings(config'))>>
            /\ pc' = "exit"
       ELSE /\ pc' = "main"
            /\ UNCHANGED <<exc, raised, printed>>
    /\ UNCHANGED <<locals, profile_context, context, mslearn_mcp, env, built,
                   result, calls, writes, prompts, sent, request,
                   research_arg, roadmap_arg, exchanges, research_out,
                   released>>

\* main: advisor = CareerPathAdvisor(), then the session starts
Construct ==
    /\ pc = "main"
    /\ built' = BuiltByInit
    /\ mslearn_mcp' \in ToolShapes
    /\ profile_context' = <<>>
    /\ context' = [user_profile |-> EmptyDict,
                   learning_resources |-> EmptyList,
                   career_roadmap |-> Str(<<>>)]
    /\ pc' = "input_career"
    /\ UNCHANGED <<locals, env, config, mainvars, calls, writes, prompts,
                   sent, request, research_arg, roadmap_arg, exchanges,
                   research_out, released>>

(***************************************************************************)
(* gather_profile                                                          *)
(***************************************************************************)
\* variant: the history is joined before the utterance is appended
GatherProfileSendStale(line) ==
    /\ profile_context' = Append(profile_context, Entry("User:", line))
    /\ request' = Join("\n", profile_context)
    /\ calls' = [calls EXCEPT !.gather_profile = @ + 1]
    /\ sent' = Append(sent, line)
    /\ pc' = "await_profile"

\* gather_profile up to its await: append the utterance, join, send
GatherProfileSend(line) ==
    /\ profile_context' = Append(profile_context, Entry("User:", line))
    /\ request' = Join("\n", profile_context')
    /\ calls' = [calls EXCEPT !.gather_profile = @ + 1]
    /\ sent' = Append(sent, line)
    /\ pc' = "await_profile"

\* variant: the reply is returned but not appended to the history
GatherProfileReceiveNoAppend(text) ==
    /\ profile_context' = profile_context
    /\ profile_response' = Str(text)
    /\ exchanges' = exchanges + 1

\* gather_profile after its await: append the reply; the reply is returned
GatherProfileReceive(text) ==
    /\ profile_context' = Append(profile_context, Entry("Agent:", text))
    /\ profile_response' = Str(text)
    /\ exchanges' = exchanges + 1

(***************************************************************************)
(* run_interactive_session, PHASE 1                                        *)
(***************************************************************************)
\* input("What tech career ...") returns; profile_text = ""; first iteration
PromptCareer ==
    /\ pc = "input_career"
    /\ \E line \in InputLines :
        /\ user_input' = Str(line)
        /\ prompts' = prompts + 1
        /\ profile_text' = Str(<<>>)
        /\ i' = 0
        /\ GatherProfileSend(line)
    /\ UNCHANGED <<profile_response, learning_resources, career_roadmap,
                   context, mslearn_mcp, startup, mainvars, writes, research_arg,
                   roadmap_arg, exchanges, research_out, released>>

\* profile_agent.run returns; check the reply for the marker
ProfileReply ==
    /\ pc = "await_profile"
    /\ \E text \in ReplyTexts :
        /\ GatherProfileReceive(text)
        /\ IF Contains(PROFILE_COMPLETE, text)
           THEN /\ profile_text' = Str(text)
                /\ pc' = "store_profile"
           ELSE /\ profile_text' = profile_text
                /\ pc' = "input_more"
    /\ UNCHANGED <<user_input, i, learning_resources, career_roadmap, context,
                   mslearn_mcp, startup, mainvars, calls, writes, prompts, sent,
                   request, research_arg, roadmap_arg, research_out, released>>

\* variant: the follow-up line is not checked for being blank
PromptMoreNoBlankCheck ==
    /\ pc = "input_more"
    /\ \E line \in InputLines :
        /\ user_input' = Str(line)
        /\ prompts' = prompts + 1
        /\ IF i + 1 < MaxExchanges
           THEN /\ i' = i + 1
                /\ GatherProfileSend(line)
           ELSE /\ pc' = "store_profile"
                /\ UNCHANGED <<i, profile_context, request, calls, sent>>
    /\ UNCHANGED <<profile_response, profile_text, learning_resources,
                   career_roadmap, context, mslearn_mcp, startup, mainvars,
                   writes, research_arg, roadmap_arg, exchanges, research_out,
                   released>>

\* input("\n> ") returns; blank ends the loop, else the next iteration, if any
PromptMore ==
    /\ pc = "input_more"
    /\ \E line \in InputLines :
        /\ user_input' = Str(line)
        /\ prompts' = prompts + 1
        /\ IF ~Truthy(Strip(line))
           THEN /\ pc' = "store_profile"
                /\ UNCHANGED <<i, profile_context, request, calls, sent>>
           ELSE IF i + 1 < MaxExchanges
           THEN /\ i' = i + 1
                /\ GatherProfileSend(line)
           ELSE /\ pc' = "store_profile"
                /\ UNCHANGED <<i, profile_context, request, calls, sent>>
    /\ UNCHANGED <<profile_response, profile_text, learning_resources,
                   career_roadmap, context, mslearn_mcp, startup, mainvars, writes,
                   research_arg, roadmap_arg, exchanges, research_out,
                   released>>

\* variant: control goes on to the research without storing the profile
StoreProfileSkipped ==
    /\ pc = "store_profile"
    /\ profile_text' = IF ~Truthy(profile_text.val) THEN profile_response
                       ELSE profile_text
    /\ pc' = "research"
    /\ UNCHANGED <<user_input, i, profile_response, learning_resources,
                   career_roadmap, profile_context, context, mslearn_mcp, startup,
                   mainvars, calls, writes, prompts, sent, request,
                   research_arg, roadmap_arg, exchanges, research_out,
                   released>>

\* variant: no fallback to the last reply
StoreProfileNoFallback ==
    /\ pc = "store_profile"
    /\ profile_text' = profile_text
    /\ context' = [context EXCEPT !.user_profile = profile_text']
    /\ writes' = Append(writes, "user_profile")
    /\ pc' = "research"
    /\ UNCHANGED <<user_input, i, profile_response, learning_resources,
                   career_roadmap, profile_context, mslearn_mcp, startup, mainvars,
                   calls, prompts, sent, request, research_arg, roadmap_arg,
                   exchanges, research_out, released>>

\* the fallback to the last reply, then context["user_profile"] = profile_text
StoreProfile ==
    /\ pc = "store_profile"
    /\ profile_text' = IF ~Truthy(profile_text.val) THEN profile_response
                       ELSE profile_text
    /\ context' = [context EXCEPT !.user_profile = profile_text']
    /\ writes' = Append(writes, "user_profile")
    /\ pc' = "research"
    /\ UNCHANGED <<user_input, i, profile_response, learning_resources,
                   career_roadmap, profile_context, mslearn_mcp, startup, mainvars,
                   calls, prompts, sent, request, research_arg, roadmap_arg,
                   exchanges, research_out, released>>

(***************************************************************************)
(* PHASE 2 and PHASE 3                                                     *)
(***************************************************************************)
\* research_learning_path(profile_text) up to its await
ResearchCall ==
    /\ pc = "research"
    /\ research_arg' = profile_text
    /\ calls' = [calls EXCEPT !.research_learning_path = @ + 1]
    /\ pc' = "await_research"
    /\ UNCHANGED <<locals, profile_context, context, mslearn_mcp, startup, mainvars,
                   writes, prompts, sent, request, roadmap_arg, exchanges,
                   research_out, released>>

\* variant: the resources are stored under the profile's key
ResearchReplyWrongKey ==
    /\ pc = "await_research"
    /\ \E text \in StageTexts :
        /\ research_out' = Str(text)
        /\ learning_resources' = Str(text)
        /\ context' = [context EXCEPT !.user_profile = Str(text)]
    /\ writes' = Append(writes, "user_profile")
    /\ pc' = "roadmap"
    /\ UNCHANGED <<user_input, i, profile_response, profile_text,
                   career_roadmap, profile_context, mslearn_mcp, startup, mainvars,
                   calls, prompts, sent, request, research_arg, roadmap_arg,
                   exchanges, released>>

\* research_agent.run returns; context["learning_resources"] = its text
ResearchReply ==
    /\ pc = "await_research"
    /\ \E text \in StageTexts :
        /\ research_out' = Str(text)
        /\ learning_resources' = Str(text)
        /\ context' = [context EXCEPT !.learning_resources = Str(text)]
    /\ writes' = Append(writes, "learning_resources")
    /\ pc' = "roadmap"
    /\ UNCHANGED <<user_input, i, profile_response, profile_text,
                   career_roadmap, profile_context, mslearn_mcp, startup, mainvars,
                   calls, prompts, sent, request, research_arg, roadmap_arg,
                   exchanges, released>>

\* variant: the two arguments of create_roadmap are swapped
RoadmapCallSwapped ==
    /\ pc = "roadmap"
    /\ roadmap_arg' = <<learning_resources, profile_text>>
    /\ calls' = [calls EXCEPT !.create_roadmap = @ + 1]
    /\ pc' = "await_roadmap"
    /\ UNCHANGED <<locals, profile_context, context, mslearn_mcp, startup, mainvars,
                   writes, prompts, sent, request, research_arg, exchanges,
                   research_out, released>>

\* create_roadmap(profile_text, learning_resources) up to its await
RoadmapCall ==
    /\ pc = "roadmap"
    /\ roadmap_arg' = <<profile_text, learning_resources>>
    /\ calls' = [calls EXCEPT !.create_roadmap = @ + 1]
    /\ pc' = "await_roadmap"
    /\ UNCHANGED <<locals, profile_context, context, mslearn_mcp, startup, mainvars,
                   writes, prompts, sent, request, research_arg, exchanges,
                   research_out, released>>

\* variant: the session returns right after the roadmap, with no cleanup
RoadmapReplyNoCleanup ==
    /\ pc = "await_roadmap"
    /\ \E text \in StageTexts :
        /\ career_roadmap' = Str(text)
        /\ context' = [context EXCEPT !.career_roadmap = Str(text)]
    /\ writes' = Append(writes, "career_roadmap")
    /\ pc' = "exit"
    /\ result' = None
    /\ UNCHANGED <<user_input, i, profile_response, profile_text,
                   learning_resources, profile_context, mslearn_mcp, startup,
                   exc, printed, raised, calls, prompts, sent, request,
                   research_arg, roadmap_arg, exchanges, research_out,
                   released>>

\* advisor_agent.run returns; context["career_roadmap"] = its text
RoadmapReply ==
    /\ pc = "await_roadmap"
    /\ \E text \in StageTexts :
        /\ career_roadmap' = Str(text)
        /\ context' = [context EXCEPT !.career_roadmap = Str(text)]
    /\ writes' = Append(writes, "career_roadmap")
    /\ pc' = "cleanup"
    /\ UNCHANGED <<user_input, i, profile_response, profile_text,
                   learning_resources, profile_context, mslearn_mcp, startup, mainvars,
                   calls, prompts, sent, request, research_arg, roadmap_arg,
                   exchanges, research_out, released>>

(***************************************************************************)
(* _cleanup_mcp                                                            *)
(***************************************************************************)
\* await self._cleanup_mcp(): enter the try, start asyncio.sleep(0.5)
CleanupCall ==
    /\ pc = "cleanup"
    /\ calls' = [calls EXCEPT !.cleanup_mcp = @ + 1]
    /\ pc' = "cleanup_sleep"
    /\ UNCHANGED <<locals, profile_context, context, mslearn_mcp, startup, mainvars,
                   writes, prompts, sent, request, research_arg, roadmap_arg,
                   exchanges, research_out, released>>

\* variant: the handler is "except RuntimeError: pass"
CleanupPropagatesNarrow(e) == e # "none" /\ e # "RuntimeError"

\* "except Exception: pass": TRUE when the handler lets e through
CleanupPropagates(e) == e # "none" /\ ~IsException(e)

\* the sleep is over: call close(), else __aexit__(), else nothing; e is what
\* the awaited call raises ("none" when it returns); then the except clause;
\* then run_interactive_session returns to main, which ends
CleanupRelease ==
    /\ pc = "cleanup_sleep"
    /\ \E e \in ReleaseErrors \cup {"none"} :
        LET called == mslearn_mcp.close \/ mslearn_mcp.aexit
            out == IF called THEN e ELSE "none"
        IN /\ calls' = [calls EXCEPT
                          !.close = IF mslearn_mcp.close THEN @ + 1 ELSE @,
                          !.aexit = IF ~mslearn_mcp.close /\ mslearn_mcp.aexit
                                    THEN @ + 1 ELSE @]
           /\ released' = IF called THEN e ELSE "no_method"
           /\ IF CleanupPropagates(out)
              THEN /\ exc' = out
                   /\ raised' = out
                   /\ pc' = "except"
                   /\ UNCHANGED result
              ELSE /\ pc' = "exit"
                   /\ result' = None
                   /\ UNCHANGED <<exc, raised>>
    /\ UNCHANGED <<locals, profile_context, context, mslearn_mcp, startup, printed,
                   writes, prompts, sent, request, research_arg, roadmap_arg,
                   exchanges, research_out>>

(***************************************************************************)
(* Failures and main's handlers                                            *)
(***************************************************************************)
\* variant: a failure of the research is caught and the session goes on
\* with empty resources
StageRaiseCaught ==
    /\ pc \in {"await_profile", "await_research", "await_roadmap"}
    /\ \E e \in StageErrors :
        /\ raised' = e
        /\ IF pc = "await_research"
           THEN /\ learning_resources' = Str(<<>>)
                /\ pc' = "roadmap"
                /\ exc' = exc
           ELSE /\ learning_resources' = learning_resources
                /\ pc' = "except"
                /\ exc' = e
    /\ UNCHANGED <<user_input, i, profile_response, profile_text,
                   career_roadmap, profile_context, context, mslearn_mcp, startup,
                   printed, result, calls, writes, prompts, sent, request,
                   research_arg, roadmap_arg, exchanges, research_out,
                   released>>

\* variant: a failed gather_profile takes its utterance back out of the
\* history
StageRaiseRollsBack ==
    /\ pc \in {"await_profile", "await_research", "await_roadmap"}
    /\ \E e \in StageErrors :
        /\ exc' = e
        /\ raised' = e
    /\ profile_context' =
          IF pc = "await_profile"
          THEN SubSeq(profile_context, 1, Len(profile_context) - 1)
          ELSE profile_context
    /\ pc' = "except"
    /\ UNCHANGED <<locals, context, mslearn_mcp, startup, printed, result,
                   calls, writes, prompts, sent, request, research_arg,
                   roadmap_arg, exchanges, research_out, released>>

\* an awaited agent run raises: nothing in gather_profile,
\* research_learning_path, create_roadmap or run_interactive_session catches
StageRaise ==
    /\ pc \in {"await_profile", "await_research", "await_roadmap"}
    /\ \E e \in StageErrors :
        /\ exc' = e
        /\ raised' = e
    /\ pc' = "except"
    /\ UNCHANGED <<locals, profile_context, context, mslearn_mcp, startup, printed,
                   result, calls, writes, prompts, sent, request,
                   research_arg, roadmap_arg, exchanges, research_out,
                   released>>

\* input() raises EOFError when the input stream is closed
InputEOF ==
    /\ pc \in {"input_career", "input_more"}
    /\ exc' = "EOFError"
    /\ raised' = "EOFError"
    /\ pc' = "except"
    /\ UNCHANGED <<locals, profile_context, context, mslearn_mcp, startup, printed,
                   result, calls, writes, prompts, sent, request,
                   research_arg, roadmap_arg, exchanges, research_out,
                   released>>

\* the points where control waits: input() and every await
SuspensionPoints ==
    {"input_career", "input_more", "await_profile", "await_research",
     "await_roadmap", "cleanup_sleep"}

\* the points where control waits in input()
InputPoints == {"input_career", "input_more"}

\* Ctrl+C while control waits.  In input() the KeyboardInterrupt is raised
\* inside the coroutine.  At an await the coroutine is not running:
\* asyncio.run cancels the task, CancelledError is thrown in at the await,
\* and neither "except Exception" in _cleanup_mcp nor a handler of main
\* catches it.  (Where Ctrl+C in input() only marks the task for
\* cancellation, the line is read and the next await is cancelled: the same
\* as this action at that await.)
Interrupt ==
    /\ pc \in SuspensionPoints
    /\ exc' = IF pc \in InputPoints THEN "KeyboardInterrupt"
              ELSE "CancelledError"
    /\ raised' = exc'
    /\ pc' = "except"
    /\ UNCHANGED <<locals, profile_context, context, mslearn_mcp, startup,
                   printed, result, calls, writes, prompts, sent, request,
                   research_arg, roadmap_arg, exchanges, research_out,
                   released>>

\* main's except clauses: the farewell for KeyboardInterrupt, the error
\* report for an Exception; a CancelledError passes both and asyncio.run,
\* outside main, raises KeyboardInterrupt, which ends in a traceback
MainExcept ==
    /\ pc = "except"
    /\ printed' = IF exc = "KeyboardInterrupt" THEN <<"farewell">>
                  ELSE IF IsException(exc) THEN <<"error", exc>>
                  ELSE <<"traceback", "KeyboardInterrupt">>
    /\ pc' = "exit"
    /\ UNCHANGED <<locals, profile_context, context, mslearn_mcp, startup,
                   exc, result, raised, calls, writes, prompts, sent, request,
                   research_arg, roadmap_arg, exchanges, research_out,
                   released>>

Next ==
    \/ PromptCareer
    \/ ProfileReply
    \/ PromptMore
    \/ StoreProfile
    \/ ResearchCall
    \/ ResearchReply
    \/ RoadmapCall
    \/ RoadmapReply
    \/ CleanupCall
    \/ CleanupRelease
    \/ StageRaise
    \/ InputEOF
    \/ Interrupt
    \/ MainExcept

Spec == Init /\ [][Next]_vars

\* start-up: from the import of the module to the first prompt
NextStartup ==
    \/ LoadConfig
    \/ Construct
    \/ PromptCareer

SpecStartup == InitStartup /\ [][NextStartup]_vars

\* a session in which every prompt and every awaited call comes back
NextReturning ==
    \/ PromptCareer
    \/ ProfileReply
    \/ PromptMore
    \/ StoreProfile
    \/ ResearchCall
    \/ ResearchReply
    \/ RoadmapCall
    \/ RoadmapReply
    \/ CleanupCall
    \/ CleanupRelease

SpecReturning ==
    Init /\ [][NextReturning]_vars /\ WF_vars(NextReturning)

(***************************************************************************)
(* Properties                                                              *)
(***************************************************************************)
\* key f of self.context has been assigned by run_interactive_session
Written(f) == \E k \in 1..Len(writes) : writes[k] = f

\* the order in which the Session Result is filled
FieldOrder == <<"user_profile", "learning_resources", "career_roadmap">>

\* control is past the profile loop
PastProfileLoop == pc \notin {"input_career", "await_profile", "input_more"}

\* C1: research_learning_path is never invoked before
\* context["user_profile"] has been assigned, and create_roadmap is never
\* invoked before both context["user_profile"] and
\* context["learning_resources"] have been assigned.
C1_StagesAfterAssignments ==
    /\ (calls.research_learning_path > 0) =>
          (Written("user_profile") /\ context.user_profile.type = "str")
    /\ (calls.create_roadmap > 0) =>
          /\ Written("user_profile")
          /\ Written("learning_resources")
          /\ context.user_profile.type = "str"
          /\ context.learning_resources.type = "str"

\* create_roadmap has just been invoked, after both assignments
C1_Witness ==
    /\ pc = "await_roadmap"
    /\ calls.create_roadmap = 1
    /\ writes = <<"user_profile", "learning_resources">>

\* C2: the profile loop makes at most 5 gather_profile calls, however many
\* replies lack PROFILE_COMPLETE.
C2_AtMostFiveExchanges == calls.gather_profile <= 5 /\ exchanges <= 5

\* five replies without the marker have come back and the loop prompts again
C2_Witness ==
    /\ pc = "input_more"
    /\ exchanges = 5
    /\ ~Contains(PROFILE_COMPLETE, profile_response.val)

\* C3: a blank (empty or whitespace-only) line at any prompt of profile
\* collection, the first included, ends the collection on that turn, and no
\* gather_profile call is made with a blank line.
C3_BlankLineEndsCollection ==
    /\ \A k \in 1..Len(sent) : Truthy(Strip(sent[k]))
    /\ (prompts > 0 /\ ~Truthy(Strip(user_input.val))) => PastProfileLoop

\* C4 (states): once a stage has raised e, e travels unchanged to main, which
\* reports e; nothing is returned; no stage that had not been called is
\* called; what earlier stages stored is still stored.
C4_StageFailureState ==
    (raised \in StageErrors) =>
        /\ exc = raised
        /\ pc \in {"except", "exit"}
        /\ (pc = "exit") => (printed = <<"error", raised>>)
        /\ result = Unbound
        /\ (~Written("user_profile")) => (calls.research_learning_path = 0)
        /\ (~Written("learning_resources")) => (calls.create_roadmap = 0)
        /\ Written("user_profile") => (context.user_profile = profile_text)
        /\ Written("learning_resources") =>
              (context.learning_resources = learning_resources)

\* C4 (steps): after the failure no call is made, no line is read and no
\* field changes
C4_StageFailureStep ==
    (raised \in StageErrors) =>
        /\ calls' = calls
        /\ prompts' = prompts
        /\ context' = context
        /\ exc' = exc
        /\ pc' = "exit"

\* C4: an exception raised in gather_profile, research_learning_path or
\* create_roadmap propagates unmodified and uncaught to main, which reports
\* it and ends the session; no later stage is invoked, nothing is returned,
\* and the fields written by earlier stages stay set.
C4_StageFailurePropagates ==
    [](C4_StageFailureState) /\ [][C4_StageFailureStep]_vars

\* the research failed: main reported it, create_roadmap was never called,
\* the profile stored before is still there
C4_Witness ==
    /\ pc = "exit"
    /\ raised = "TimeoutError"
    /\ printed = <<"error", "TimeoutError">>
    /\ calls.research_learning_path = 1
    /\ calls.create_roadmap = 0
    /\ context.user_profile.type = "str"
    /\ context.learning_resources = EmptyList

\* C5: whenever the session has ended, normally or by a stage exception or
\* an interrupt, _cleanup_mcp has been attempted.
C5_CleanupBeforeEnd == (pc = "exit") => (calls.cleanup_mcp >= 1)

\* C6: _cleanup_mcp never raises to its caller when the release fails: close
\* or __aexit__ raising (already closed, network down) or the tool having
\* neither method; the failure is swallowed, the session returns normally,
\* and the release is tried at most once.
C6_CleanupNeverRaises ==
    /\ raised \notin ReleaseErrors
    /\ calls.close + calls.aexit <= 1
    /\ (released # "untried") =>
          /\ pc = "exit"
          /\ exc = "none"
          /\ printed = <<>>
          /\ result = None
          /\ calls.close + calls.aexit = IF released = "no_method" THEN 0 ELSE 1

\* the tool has no close, its __aexit__ raised for a network failure, and
\* the session still ended normally
C6_Witness ==
    /\ released = "ConnectionError"
    /\ ~mslearn_mcp.close
    /\ calls.aexit = 1
    /\ pc = "exit"
    /\ printed = <<>>

\* C7 (states): with N exchanges completed and none in flight the Transcript
\* has 2N entries; entries alternate "User:" and "Agent:"; the k-th user
\* entry is the k-th utterance sent
C7_TranscriptState ==
    /\ (calls.gather_profile = exchanges) =>
          (Len(profile_context) = 2 * exchanges)
    /\ \A k \in 1..Len(profile_context) :
          Head(profile_context[k]) = IF k % 2 = 1 THEN "User:" ELSE "Agent:"
    /\ \A k \in 1..Len(sent) :
          /\ 2 * k - 1 <= Len(profile_context)
          /\ profile_context[2 * k - 1] = Entry("User:", sent[k])

\* C7 (steps): entries are only appended, and a completed exchange leaves
\* the reply as entry 2N
C7_TranscriptStep ==
    /\ Len(profile_context') >= Len(profile_context)
    /\ SubSeq(profile_context', 1, Len(profile_context)) = profile_context
    /\ (exchanges' = exchanges + 1) =>
          /\ Len(profile_context') = 2 * exchanges'
          /\ profile_context'[2 * exchanges'] =
                Entry("Agent:", profile_response'.val)

\* C7: after N completed gather_profile exchanges _profile_context has
\* exactly 2N entries, alternating "User:" and "Agent:" in the order of the
\* turns, and no earlier entry is ever changed, removed or reordered.
C7_TranscriptAppendOnly ==
    [](C7_TranscriptState) /\ [][C7_TranscriptStep]_vars

\* five exchanges completed, ten entries
C7_Witness ==
    /\ exchanges = 5
    /\ calls.gather_profile = 5
    /\ Len(profile_context) = 10

\* the text of the last entry of the Transcript
LastEntryText == Tail(profile_context[Len(profile_context)])

\* C8 (states): the loop is left only for one of the three reasons; a reply
\* with the marker leaves it at once; the profile stored and the profile
\* handed to research_learning_path are the last reply
C8_ProfileState ==
    /\ (pc = "store_profile") =>
          \/ Contains(PROFILE_COMPLETE, profile_response.val)
          \/ exchanges = 5
          \/ ~Truthy(Strip(user_input.val))
    /\ (exchanges > 0 /\ Contains(PROFILE_COMPLETE, profile_response.val)) =>
          PastProfileLoop
    /\ Written("user_profile") =>
          /\ context.user_profile = profile_response
          /\ profile_response = Str(LastEntryText)
    /\ (calls.research_learning_path > 0) => (research_arg = profile_response)

\* C8 (steps): a reply with the marker, a blank line at a follow-up prompt
\* and the prompt after the fifth reply each end the collection; once it has
\* ended there is no prompt and no gather_profile call
C8_ProfileStep ==
    /\ (/\ pc = "await_profile"
        /\ exchanges' = exchanges + 1
        /\ Contains(PROFILE_COMPLETE, profile_response'.val)) =>
          (pc' = "store_profile" /\ prompts' = prompts)
    /\ (/\ pc = "input_more"
        /\ prompts' = prompts + 1
        /\ (~Truthy(Strip(user_input'.val)) \/ exchanges = 5)) =>
          (pc' = "store_profile" /\ calls' = calls)
    /\ PastProfileLoop =>
          /\ prompts' = prompts
          /\ calls'.gather_profile = calls.gather_profile
          /\ profile_response' = profile_response

C9_OneResearchThenOneRoadmap ==
    /\ calls.research_learning_path <= 1
    /\ calls.create_roadmap <= calls.research_learning_path
    /\ (calls.create_roadmap > 0) => (research_out # Unbound)
    /\ Written("career_roadmap") =>
          /\ calls.research_learning_path = 1
          /\ calls.create_roadmap = 1
          /\ roadmap_arg[1] = research_arg
          /\ roadmap_arg[2] = research_out

\* a finished session whose research returned a non-empty text
C9_Witness ==
    /\ pc = "exit"
    /\ result = None
    /\ Written("career_roadmap")
    /\ research_out = Str(<<"r">>)
    /\ roadmap_arg[2] = Str(<<"r">>)

\* C10 (states): the fields are assigned in the order user_profile,
\* learning_resources, career_roadmap, each at most once; a field not yet
\* assigned holds its initial value
C10_WriteOrderState ==
    /\ Len(writes) <= 3
    /\ \A k \in 1..Len(writes) : writes[k] = FieldOrder[k]
    /\ (~Written("user_profile")) => (context.user_profile = EmptyDict)
    /\ (~Written("learning_resources")) =>
          (context.learning_resources = EmptyList)
    /\ (~Written("career_roadmap")) => (context.career_roadmap = Str(<<>>))

\* C10 (steps): an assigned field keeps its value; context changes only by
\* the assignment of one more field
C10_WriteOnceStep ==
    /\ \A k \in 1..Len(writes) : context'[writes[k]] = context[writes[k]]
    /\ (context' # context) => (Len(writes') = Len(writes) + 1)

\* C10: each of the three fields of self.context is written at most once
\* after __init__, in the order profile, resources, roadmap, and once
\* written never changes.
C10_FieldsWriteOnce == [](C10_WriteOrderState) /\ [][C10_WriteOnceStep]_vars

\* all three fields written, session over
C10_Witness ==
    /\ pc = "exit"
    /\ writes = FieldOrder
    /\ context.career_roadmap = Str(<<"r">>)

\* the session ran through create_roadmap and ended without an exception
SessionDone == pc = "exit" /\ raised = "none" /\ Written("career_roadmap")

\* C11: on reaching Done the orchestrator first attempts the release of the
\* tool's connection and then returns to its caller the Session Result,
\* whose fields hold the profile, the research output and the roadmap.
C11_ReturnsSessionResult ==
    SessionDone =>
        /\ calls.cleanup_mcp = 1
        /\ released # "untried"
        /\ context = [user_profile |-> profile_text,
                      learning_resources |-> learning_resources,
                      career_roadmap |-> career_roadmap]
        /\ result = context

\* C12 (states): first line non-blank, first reply without the marker, second
\* line blank: one gather_profile call was made and the loop is over
C12_BlankSecondTurnState ==
    (/\ prompts = 2
     /\ Truthy(Strip(sent[1]))
     /\ ~Contains(PROFILE_COMPLETE, Tail(profile_context[2]))
     /\ ~Truthy(Strip(user_input.val))) =>
        /\ PastProfileLoop
        /\ calls.gather_profile = 1
        /\ sent = <<sent[1]>>
        /\ Len(profile_context) = 2

\* C12 (steps): from then on no line is read and no gather_profile call made
C12_BlankSecondTurnStep ==
    (prompts = 2 /\ ~Truthy(Strip(user_input.val))) =>
        /\ prompts' = prompts
        /\ calls'.gather_profile = calls.gather_profile
        /\ profile_context' = profile_context

\* C12: with a non-blank first line, a first reply without the marker and a
\* blank second line, the profile loop stops on the second turn: no
\* gather_profile call is made for the blank line, and none afterwards.
C12_BlankSecondTurnStops ==
    [](C12_BlankSecondTurnState) /\ [][C12_BlankSecondTurnStep]_vars

\* after the blank second line the session went on to the research with the
\* single reply as the profile
C12_Witness ==
    /\ prompts = 2
    /\ user_input = Str(<<" ">>)
    /\ sent = <<<<"x">>>>
    /\ calls.gather_profile = 1
    /\ pc = "await_research"
    /\ research_arg = Str(<<"q">>)

\* a required setting that is absent or empty in the environment
AbsentOrEmpty(n) == env[n] = None \/ env[n] = Str(<<>>)

\* the positions in RequiredSettings of the settings absent or empty
MissingAt == {k \in 1..Len(RequiredSettings) : AbsentOrEmpty(RequiredSettings[k])}

\* C13: if the endpoint, the API key or the deployment name is absent or
\* empty, a failure naming the (first) missing one is raised at start-up,
\* before the client, the tool or any agent is constructed and before any
\* prompt; an absent API version is no failure and becomes the default.
C13_ConfigCheckedAtStartup ==
    /\ (MissingAt # {}) =>
          /\ built = <<>>
          /\ mslearn_mcp = Unbound
          /\ prompts = 0
          /\ pc \in {"import", "exit"}
          /\ (pc = "exit") =>
                /\ raised = "ValueError"
                /\ printed =
                     <<"traceback", "ValueError",
                       RequiredSettings[CHOOSE k \in MissingAt :
                                           \A j \in MissingAt : k <= j]>>
    /\ (MissingAt = {} /\ pc # "import") =>
          /\ raised = "none"
          /\ pc # "exit"
          /\ config["AZURE_OPENAI_API_VERSION"] =
                IF env["AZURE_OPENAI_API_VERSION"] = None
                THEN DefaultApiVersion
                ELSE env["AZURE_OPENAI_API_VERSION"]
          /\ \A k \in 1..Len(RequiredSettings) :
                config[RequiredSettings[k]] = env[RequiredSettings[k]]

\* the endpoint is set, the API key is empty: the failure names the key and
\* nothing has been constructed
C13_Witness ==
    /\ pc = "exit"
    /\ env["AZURE_OPENAI_ENDPOINT"] = Str(<<"v">>)
    /\ env["AZURE_OPENAI_API_KEY"] = Str(<<>>)
    /\ printed = <<"traceback", "ValueError", "AZURE_OPENAI_API_KEY">>
    /\ built = <<>>

\* C14: an interrupt at any suspension point (a prompt, a model call, the
\* pause of the cleanup) is caught by main, which prints the farewell and
\* not the error report.
C14_InterruptGetsFarewell ==
    (pc = "exit" /\ raised \in {"KeyboardInterrupt", "CancelledError"}) =>
        (printed = <<"farewell">>)

\* C15: every iteration reads one line, sends it to gather_profile, then
\* inspects the reply; so a session reads at most 5 lines during profile
\* collection and every non-blank line it reads is sent.
C15_EveryLineReadIsSent ==
    /\ prompts <= 5
    /\ (prompts > 0 /\ Truthy(Strip(user_input.val))) => (Len(sent) = prompts)

\* the number of entries joined into a request
EntriesIn(req) == 1 + Cardinality({j \in 1..Len(req) : req[j] = "\n"})

\* C16 (states): the request of the k-th call is the first 2k-1 entries, the
\* last of them the utterance of that call; when the call has returned,
\* entry 2k is the reply and the reply is what was returned
C16_GatherProfileState ==
    (calls.gather_profile > 0) =>
        LET k == calls.gather_profile
        IN /\ Len(profile_context) \in {2 * k - 1, 2 * k}
           /\ request = Join("\n", SubSeq(profile_context, 1, 2 * k - 1))
           /\ EntriesIn(request) = 2 * k - 1
           /\ profile_context[2 * k - 1] = Entry("User:", sent[k])
           /\ (exchanges = k) =>
                 /\ Len(profile_context) = 2 * k
                 /\ profile_context[2 * k] =
                       Entry("Agent:", profile_response.val)

\* C16 (steps): a call appends the utterance and sends the joined history;
\* its return appends the reply and sends nothing
C16_GatherProfileStep ==
    /\ (calls'.gather_profile = calls.gather_profile + 1) =>
          /\ profile_context' =
                Append(profile_context, Entry("User:", user_input'.val))
          /\ request' = Join("\n", profile_context')
          /\ exchanges' = exchanges
    /\ (exchanges' = exchanges + 1) =>
          /\ profile_context' =
                Append(profile_context, Entry("Agent:", profile_response'.val))
          /\ request' = request
          /\ calls' = calls

\* C16: each gather_profile call appends the utterance, sends the whole
\* history including it, appends the reply and returns the reply unchanged;
\* the request of the k-th call carries 2k-1 entries.
C16_GatherProfileOrder ==
    [](C16_GatherProfileState) /\ [][C16_GatherProfileStep]_vars

\* the third call has returned; its request carried five entries
C16_Witness ==
    /\ calls.gather_profile = 3
    /\ exchanges = 3
    /\ EntriesIn(request) = 5
    /\ Len(profile_context) = 6

\* C17: when every prompt and every awaited call comes back, the session
\* reaches Done, after at most 5 gather_profile calls, one
\* research_learning_path call, one create_roadmap call and one cleanup.
C17_SessionReachesDone ==
    <>(/\ pc = "exit"
       /\ raised = "none"
       /\ result = None
       /\ calls.gather_profile \in 1..5
       /\ calls.research_learning_path = 1
       /\ calls.create_roadmap = 1
       /\ calls.cleanup_mcp = 1
       /\ writes = FieldOrder)

\* Done after five exchanges and a release that went through
C17_Witness ==
    /\ pc = "exit"
    /\ calls.gather_profile = 5
    /\ calls.research_learning_path = 1
    /\ calls.create_roadmap = 1
    /\ calls.cleanup_mcp = 1
    /\ released = "none"

\* C18: when the model call inside gather_profile raises, the utterance of
\* that call stays in the history and no agent entry follows it: the history
\* has an odd number of entries, and no field of self.context was written.
C18_FailedExchangeLeavesUtterance ==
    (raised \in StageErrors /\ calls.gather_profile > exchanges) =>
        /\ Len(profile_context) = 2 * calls.gather_profile - 1
        /\ Len(profile_context) % 2 = 1
        /\ profile_context[Len(profile_context)] =
              Entry("User:", sent[Len(sent)])
        /\ writes = <<>>
        /\ context = [user_profile |-> EmptyDict,
                      learning_resources |-> EmptyList,
                      career_roadmap |-> Str(<<>>)]

\* the second gather_profile call failed: three entries, nothing written
C18_Witness ==
    /\ pc = "exit"
    /\ raised = "AuthenticationError"
    /\ calls.gather_profile = 2
    /\ Len(profile_context) = 3
    /\ writes = <<>>

====
